---- MODULE Spec2Model ----
(***************************************************************************)
(* The vacation-booking saga of saga_workflows.py (BookWorkflow) and       *)
(* workflows.py (BookingWorkflow).  One workflow run is a coroutine whose  *)
(* suspension points are the awaits on workflow.execute_activity; the code *)
(* between two awaits runs atomically.  The task executor is modelled by   *)
(* its contract only: an activity attempt completes with "ok" or with one  *)
(* of the error kinds, the retry policy passed by the workflow decides     *)
(* whether the executor schedules another attempt after a back-off, and a  *)
(* failure that is not retried surfaces in the workflow as ActivityError.  *)
(***************************************************************************)
EXTENDS Integers, Sequences, FiniteSets, TLC

\* Largest value of BookVacationInput.attempts the gateway is given.
MaxFlightAttempts == 3

\* Cap on the attempts of an activity whose policy sets no maximum_attempts
\* (book_car, book_hotel): the executor would go on; the model stops there.
MaxUnboundedAttempts == 2

\* Transaction ids (workflow ids) the gateway can start.
Txs == {"tx1", "tx2"}

\* The two workflow definitions.
Variants == {"BookWorkflow", "BookingWorkflow"}

\* How an activity attempt can end.  "ValueError" is the error type both
\* files list in non_retryable_error_types; "Error" is any other
\* application error; "Timeout" is start_to_close_timeout expiring.
FailureKinds == {"ValueError", "Error", "Timeout"}

\* Position of a forward step in the body of run: 1 car, 2 hotel, 3 flight.
NumSteps == 3

Forward(i) ==
    CASE i = 1 -> "book_car"
      [] i = 2 -> "book_hotel"
      [] OTHER -> "book_flight"

Compensation(i) ==
    CASE i = 1 -> "undo_book_car"
      [] i = 2 -> "undo_book_hotel"
      [] OTHER -> "undo_book_flight"

ForwardNames == {Forward(i) : i \in 1..NumSteps}

CompensationNames == {Compensation(i) : i \in 1..NumSteps}

\* Entry written to the call log when the executor waits between two attempts.
RetryDelay == "retry_delay"

\* BookVacationInput as the gateway builds it.
BookVacationInput(user, n) ==
    [book_user_id |-> user, book_car_id |-> "C1", book_hotel_id |-> "H1",
     book_flight_id |-> "F1", attempts |-> n]

\* What a forward activity returns: the text the gateway later splits on
\* "Booked car: ", "Booked hotel: ", "Booked flight: ".
Confirmation(i, book_input) ==
    CASE i = 1 -> <<"Booked car: ", book_input.book_car_id>>
      [] i = 2 -> <<"Booked hotel: ", book_input.book_hotel_id>>
      [] OTHER -> <<"Booked flight: ", book_input.book_flight_id>>

\* Mutation: the new text is put in front of the running output.
AppendOutputPrepend(output, text) == text \o output

\* output = await ...  /  output += await ...
AppendOutput(output, text) == output \o text

\* Mutation: the flight policy loses its non_retryable_error_types.
RetryPolicyFlightRetriesAll(i, book_input) ==
    [maximum_attempts |-> IF i = NumSteps THEN book_input.attempts ELSE 0,
     non_retryable_error_types |-> IF i = NumSteps THEN {} ELSE {"ValueError"}]

\* Mutation: maximum_attempts=book_input.attempts is passed for every step.
RetryPolicyAllBounded(i, book_input) ==
    [maximum_attempts |-> book_input.attempts,
     non_retryable_error_types |-> {"ValueError"}]

\* RetryPolicy(...) of step i; maximum_attempts = 0 is the executor's
\* "no limit", the default when the argument is not given.
RetryPolicy(i, book_input) ==
    [maximum_attempts |-> IF i = NumSteps THEN book_input.attempts ELSE 0,
     non_retryable_error_types |-> {"ValueError"}]

\* Mutation: one attempt too many before the executor gives up.
WillRetryOffByOne(policy, kind, attempt) ==
    /\ kind \notin policy.non_retryable_error_types
    /\ \/ policy.maximum_attempts = 0
       \/ attempt <= policy.maximum_attempts

\* The executor's decision after a failed attempt number `attempt`.
WillRetry(policy, kind, attempt) ==
    /\ kind \notin policy.non_retryable_error_types
    /\ \/ policy.maximum_attempts = 0
       \/ attempt < policy.maximum_attempts

\* Mutation: the undo of the following step is registered instead.
PushCompensationNext(compensations, i) ==
    Append(compensations, Compensation(IF i < NumSteps THEN i + 1 ELSE i))

\* compensations.append(undo of step i), executed right before step i is invoked.
PushCompensation(compensations, i) == Append(compensations, Compensation(i))

Reverse(s) == [k \in 1..Len(s) |-> s[Len(s) + 1 - k]]

\* Mutation: the loop runs over compensations without reversed().
RollbackOrderForward(compensations) == compensations

\* for compensation in reversed(compensations)
RollbackOrder(compensations) == Reverse(compensations)

NoResult == [kind |-> "none", status |-> "", value |-> <<>>]

VoyageCancelled == <<"Voyage cancelled">>

\* return output  /  return {"status": "success", "message": output}
SuccessResult(variant, output) ==
    IF variant = "BookWorkflow"
    THEN [kind |-> "str", status |-> "", value |-> output]
    ELSE [kind |-> "dict", status |-> "success", value |-> output]

\* return "Voyage cancelled"  /  return {"status": "failure", "error": str(e)}
RollbackResult(variant, ex) ==
    IF variant = "BookWorkflow"
    THEN [kind |-> "str", status |-> "", value |-> VoyageCancelled]
    ELSE [kind |-> "dict", status |-> "failure", value |-> ex]

\* An exception leaving run: the caller gets no result value.
Raised(ex) == [kind |-> "exception", status |-> "", value |-> ex]

\* The description of the ActivityError raised for activity `name`.
ActivityError(name, kind) == <<name, kind>>

\* The locals of one invocation of run, before its first statement.  calls
\* and completed are history: the activity invocations (and back-off waits)
\* in order, and the forward steps that returned, each with the number of
\* the attempt that succeeded.  retrying is the kind of the failed attempt
\* the executor is backing off from, "" when no back-off is pending.
NewRun ==
    [pc |-> "submitted", step |-> 0, attempt |-> 0,
     compensations |-> <<>>, output |-> <<>>, pending |-> <<>>,
     ex |-> <<>>, calls |-> <<>>, completed |-> <<>>, retrying |-> "",
     result |-> NoResult]

VARIABLES
    live,        \* the transactions the gateway has started
    variant,     \* variant[t]: the workflow definition transaction t runs
    book_input,  \* book_input[t]: the BookVacationInput of transaction t
    wf           \* wf[t]: the state of the run of transaction t

vars == <<live, variant, book_input, wf>>

\* Mutation: book_car is invoked before its undo is registered.
StartRunNoPush(L) ==
    [L EXCEPT !.pc = "forward", !.step = 1, !.attempt = 1,
              !.calls = Append(@, Forward(1))]

\* compensations = [] ; append undo_book_car ; invoke book_car.
StartRun(L) ==
    [L EXCEPT !.pc = "forward", !.step = 1, !.attempt = 1,
              !.compensations = PushCompensation(<<>>, 1),
              !.calls = Append(@, Forward(1))]

\* Mutation: once book_car has returned, book_hotel and book_flight are
\* started together instead of one after the other.
ForwardOkParallel(L, v, inp) ==
    LET out == AppendOutput(L.output, Confirmation(L.step, inp))
        fin == Append(L.completed, <<Forward(L.step), L.attempt>>)
    IN  IF L.step = 1
        THEN [L EXCEPT !.output = out, !.completed = fin,
                       !.step = 2, !.attempt = 1,
                       !.compensations = PushCompensation(PushCompensation(@, 2), 3),
                       !.calls = Append(Append(@, Forward(2)), Forward(3))]
        ELSE IF L.step < NumSteps
        THEN [L EXCEPT !.output = out, !.completed = fin,
                       !.step = L.step + 1, !.attempt = 1]
        ELSE [L EXCEPT !.output = out, !.completed = fin,
                       !.pc = "returned",
                       !.result = SuccessResult(v, out)]

\* The awaited forward activity returned its confirmation.
ForwardOk(L, v, inp) ==
    LET out == AppendOutput(L.output, Confirmation(L.step, inp))
        fin == Append(L.completed, <<Forward(L.step), L.attempt>>)
    IN  IF L.step < NumSteps
        THEN [L EXCEPT !.output = out, !.completed = fin,
                       !.step = L.step + 1, !.attempt = 1,
                       !.compensations = PushCompensation(@, L.step + 1),
                       !.calls = Append(@, Forward(L.step + 1))]
        ELSE [L EXCEPT !.output = out, !.completed = fin,
                       !.pc = "returned",
                       !.result = SuccessResult(v, out)]

\* Mutation: the retry is scheduled with no back-off interval.
ForwardRetryNoDelay(L, kind) == [L EXCEPT !.pc = "backoff", !.retrying = kind]

\* An attempt failed and the executor will retry it after the back-off.
ForwardRetry(L, kind) ==
    [L EXCEPT !.pc = "backoff", !.retrying = kind,
              !.calls = Append(@, RetryDelay)]

\* The back-off timer fired: the executor starts the next attempt.
NextAttempt(L) ==
    [L EXCEPT !.pc = "forward", !.attempt = @ + 1, !.retrying = "",
              !.calls = Append(@, Forward(L.step))]

\* Mutation: the except clause returns without running the compensations.
EnterRollbackSkip(L, v, e) ==
    [L EXCEPT !.pc = "returned", !.ex = e, !.result = RollbackResult(v, e)]

\* Mutation: the loop over the stack is run a second time.
EnterRollbackTwice(L, v, e) ==
    LET order == RollbackOrder(L.compensations) \o RollbackOrder(L.compensations)
    IN  IF order = <<>>
        THEN [L EXCEPT !.pc = "returned", !.ex = e,
                       !.result = RollbackResult(v, e)]
        ELSE [L EXCEPT !.pc = "rollback", !.ex = e,
                       !.pending = Tail(order),
                       !.calls = Append(@, Head(order))]

\* The except clause is entered with exception e: the loop over
\* reversed(compensations) starts and its first activity is invoked.
EnterRollback(L, v, e) ==
    LET order == RollbackOrder(L.compensations)
    IN  IF order = <<>>
        THEN [L EXCEPT !.pc = "returned", !.ex = e,
                       !.result = RollbackResult(v, e)]
        ELSE [L EXCEPT !.pc = "rollback", !.ex = e,
                       !.pending = Tail(order),
                       !.calls = Append(@, Head(order))]

\* Mutation: BookingWorkflow's except clause names a type that
\* ActivityError is not an instance of.
CaughtNarrow(v, exc_type) == v = "BookWorkflow"

\* except Exception (BookWorkflow) / except ActivityError (BookingWorkflow):
\* does the clause of variant v catch an exception of type exc_type.
Caught(v, exc_type) ==
    IF v = "BookWorkflow" THEN TRUE ELSE exc_type = "ActivityError"

\* An attempt failed and is not retried: execute_activity raises
\* ActivityError, which the except clause catches or lets through.
ForwardFail(L, v, kind) ==
    IF Caught(v, "ActivityError")
    THEN EnterRollback(L, v, ActivityError(Forward(L.step), kind))
    ELSE [L EXCEPT !.pc = "raised",
                   !.ex = ActivityError(Forward(L.step), kind),
                   !.result = Raised(ActivityError(Forward(L.step), kind))]

\* The awaited compensation returned: next loop iteration, or the return.
CompensationOk(L, v) ==
    IF L.pending = <<>>
    THEN [L EXCEPT !.pc = "returned",
                   !.result = RollbackResult(v, L.ex)]
    ELSE [L EXCEPT !.pending = Tail(@),
                   !.calls = Append(@, Head(L.pending))]

\* Mutation: a compensation that failed is invoked once more.
CompensationFailRetry(L, kind) ==
    LET name == L.calls[Len(L.calls)]
    IN  IF Cardinality({k \in 1..Len(L.calls) : L.calls[k] = name}) < 2
        THEN [L EXCEPT !.calls = Append(@, name)]
        ELSE [L EXCEPT !.pc = "raised",
                       !.result = Raised(ActivityError(name, kind))]

\* The awaited compensation raised inside the except clause: nothing
\* catches it, the exception leaves run.
CompensationFail(L, kind) ==
    [L EXCEPT !.pc = "raised",
              !.result = Raised(ActivityError(L.calls[Len(L.calls)], kind))]

\* Mutation: compensations is one list shared by every run.
UpdateShared(w, t, L) ==
    [u \in DOMAIN w |->
        IF u = t THEN L ELSE [w[u] EXCEPT !.compensations = L.compensations]]

\* The locals of a run belong to that invocation alone.
Update(w, t, L) == [w EXCEPT ![t] = L]

Init ==
    /\ live = {"tx1"}
    /\ \E v \in Variants : variant = [t \in Txs |-> v]
    /\ \E n \in 1..MaxFlightAttempts :
           book_input = [t \in Txs |-> BookVacationInput(t, n)]
    /\ wf = [t \in Txs |-> NewRun]

InitConcurrent ==
    /\ live = Txs
    /\ variant = [t \in Txs |-> "BookWorkflow"]
    /\ \E n \in 1..MaxFlightAttempts :
           book_input = [t \in Txs |-> BookVacationInput(t, n)]
    /\ wf = [t \in Txs |-> NewRun]

Run(t) ==
    /\ t \in live
    /\ wf[t].pc = "submitted"
    /\ wf' = Update(wf, t, StartRun(wf[t]))
    /\ UNCHANGED <<live, variant, book_input>>

ForwardSucceeds(t) ==
    /\ t \in live
    /\ wf[t].pc = "forward"
    /\ wf' = Update(wf, t, ForwardOk(wf[t], variant[t], book_input[t]))
    /\ UNCHANGED <<live, variant, book_input>>

ForwardFailsRetried(t) ==
    /\ t \in live
    /\ wf[t].pc = "forward"
    /\ \E kind \in FailureKinds :
          LET policy == RetryPolicy(wf[t].step, book_input[t])
          IN  /\ WillRetry(policy, kind, wf[t].attempt)
              /\ policy.maximum_attempts = 0 => wf[t].attempt < MaxUnboundedAttempts
              /\ wf' = Update(wf, t, ForwardRetry(wf[t], kind))
    /\ UNCHANGED <<live, variant, book_input>>

RetryTimerFires(t) ==
    /\ t \in live
    /\ wf[t].pc = "backoff"
    /\ wf' = Update(wf, t, NextAttempt(wf[t]))
    /\ UNCHANGED <<live, variant, book_input>>

ForwardFailsTerminal(t) ==
    /\ t \in live
    /\ wf[t].pc = "forward"
    /\ \E kind \in FailureKinds :
          /\ ~WillRetry(RetryPolicy(wf[t].step, book_input[t]), kind, wf[t].attempt)
          /\ wf' = Update(wf, t, ForwardFail(wf[t], variant[t], kind))
    /\ UNCHANGED <<live, variant, book_input>>

CompensationSucceeds(t) ==
    /\ t \in live
    /\ wf[t].pc = "rollback"
    /\ wf' = Update(wf, t, CompensationOk(wf[t], variant[t]))
    /\ UNCHANGED <<live, variant, book_input>>

CompensationFails(t) ==
    /\ t \in live
    /\ wf[t].pc = "rollback"
    /\ \E kind \in FailureKinds :
          wf' = Update(wf, t, CompensationFail(wf[t], kind))
    /\ UNCHANGED <<live, variant, book_input>>

Next ==
    \E t \in Txs :
        \/ Run(t)
        \/ ForwardSucceeds(t)
        \/ ForwardFailsRetried(t)
        \/ RetryTimerFires(t)
        \/ ForwardFailsTerminal(t)
        \/ CompensationSucceeds(t)
        \/ CompensationFails(t)

Spec == Init /\ [][Next]_vars

SpecConcurrent == InitConcurrent /\ [][Next]_vars

\* One step of the run of transaction t.
Step(t) ==
    \/ Run(t)
    \/ ForwardSucceeds(t)
    \/ ForwardFailsRetried(t)
    \/ RetryTimerFires(t)
    \/ ForwardFailsTerminal(t)
    \/ CompensationSucceeds(t)
    \/ CompensationFails(t)

\* The executor delivers every activity completion and fires every retry
\* timer: a run that can take a step eventually takes one.
SpecFair == Init /\ [][Next]_vars /\ \A t \in Txs : WF_vars(Step(t))

(***************************************************************************)
(* Vocabulary of the properties.                                           *)
(***************************************************************************)

\* The gateway's reading of a result: result == "Voyage cancelled".
IsCancelled(r) == r.kind = "str" /\ r.value = VoyageCancelled

IsSuccess(r) ==
    \/ r.kind = "str" /\ r.value # VoyageCancelled
    \/ r.kind = "dict" /\ r.status = "success"

IsFailure(r) == r.kind = "dict" /\ r.status = "failure"

Terminated(t) == wf[t].pc \in {"returned", "raised"}

IsUndo(c) == c \in CompensationNames

IsForward(c) == c \in ForwardNames

\* The compensation invocations of transaction t, in order.
UndoCalls(t) == SelectSeq(wf[t].calls, IsUndo)

Count(s, x) == Cardinality({k \in 1..Len(s) : s[k] = x})

IsPrefix(p, s) == Len(p) <= Len(s) /\ \A k \in 1..Len(p) : p[k] = s[k]

\* The forward steps that returned, without the attempt numbers.
CompletedSteps(t) == [k \in 1..Len(wf[t].completed) |-> wf[t].completed[k][1]]

\* The calls of s from the first invocation of x on.
From(s, x) ==
    IF Count(s, x) = 0 THEN <<>>
    ELSE LET first == CHOOSE k \in 1..Len(s) :
                          s[k] = x /\ \A j \in 1..(k - 1) : s[j] # x
         IN  SubSeq(s, first, Len(s))

AllConfirmations(inp) ==
    Confirmation(1, inp) \o Confirmation(2, inp) \o Confirmation(3, inp)

AllOnFirstAttempt(t) ==
    wf[t].completed = <<<<"book_car", 1>>, <<"book_hotel", 1>>, <<"book_flight", 1>>>>

\* C1: when book_car, book_hotel and book_flight each succeed on their first
\* attempt, run has returned a success result whose text is the car
\* confirmation, then the hotel confirmation, then the flight confirmation,
\* and no compensation has been invoked.
C1_AllSucceedFirstAttempt ==
    \A t \in live :
        AllOnFirstAttempt(t) =>
            /\ wf[t].pc = "returned"
            /\ IsSuccess(wf[t].result)
            /\ wf[t].result.value = AllConfirmations(book_input[t])
            /\ UndoCalls(t) = <<>>
            /\ wf[t].calls = <<"book_car", "book_hotel", "book_flight">>

C1_Witness ==
    \E t \in live : AllOnFirstAttempt(t) /\ IsSuccess(wf[t].result)

\* book_car and book_hotel returned and book_flight failed terminally with `kinds`.
FlightFailed(t, kinds) ==
    /\ CompletedSteps(t) = <<"book_car", "book_hotel">>
    /\ \E k \in kinds : wf[t].ex = ActivityError("book_flight", k)

\* C2 as stated: after book_car and book_hotel succeed and book_flight fails
\* with a non-retryable failure, the compensations invoked are undo_book_hotel
\* then undo_book_car, nothing else, and the run ends Cancelled.
C2_Original ==
    \A t \in live :
        FlightFailed(t, {"ValueError"}) =>
            /\ IsPrefix(UndoCalls(t), <<"undo_book_hotel", "undo_book_car">>)
            /\ Terminated(t) =>
                   /\ UndoCalls(t) = <<"undo_book_hotel", "undo_book_car">>
                   /\ IsCancelled(wf[t].result)

\* C2 amended: after book_car and book_hotel succeed and book_flight fails
\* with a non-retryable failure, the compensations are invoked in the order
\* undo_book_flight, undo_book_hotel, undo_book_car, each at most once, the
\* first of them at once and the loop stopping at a compensation that fails;
\* when run returns, all three have been invoked and the result is the
\* rollback result of the variant.
C2_FlightNonRetryableRollback ==
    \A t \in live :
        FlightFailed(t, {"ValueError"}) =>
            /\ UndoCalls(t) # <<>>
            /\ IsPrefix(UndoCalls(t),
                        <<"undo_book_flight", "undo_book_hotel", "undo_book_car">>)
            /\ wf[t].pc = "returned" =>
                   /\ UndoCalls(t) =
                          <<"undo_book_flight", "undo_book_hotel", "undo_book_car">>
                   /\ wf[t].result = RollbackResult(variant[t], wf[t].ex)
                   /\ variant[t] = "BookWorkflow" => IsCancelled(wf[t].result)
                   /\ variant[t] = "BookingWorkflow" => IsFailure(wf[t].result)

C2_Witness ==
    \E t \in live :
        /\ FlightFailed(t, {"ValueError"})
        /\ wf[t].pc = "returned"
        /\ Len(UndoCalls(t)) = 3

\* book_car failed terminally with a non-retryable failure.
CarFailedNonRetryable(t) ==
    /\ wf[t].completed = <<>>
    /\ wf[t].ex = ActivityError("book_car", "ValueError")

\* C3 as stated: when book_car fails with a non-retryable failure no
\* compensation is invoked and the run ends Cancelled.
C3_Original ==
    \A t \in live :
        CarFailedNonRetryable(t) =>
            /\ UndoCalls(t) = <<>>
            /\ Terminated(t) => IsCancelled(wf[t].result)

\* C3 amended: when book_car fails with a non-retryable failure exactly one
\* compensation, undo_book_car, is invoked, once, and when run returns
\* the result is the rollback result of the variant.
C3_CarNonRetryableRollback ==
    \A t \in live :
        CarFailedNonRetryable(t) =>
            /\ UndoCalls(t) = <<"undo_book_car">>
            /\ wf[t].pc \in {"rollback", "returned", "raised"}
            /\ wf[t].pc = "returned" =>
                   /\ wf[t].result = RollbackResult(variant[t], wf[t].ex)
                   /\ variant[t] = "BookWorkflow" => IsCancelled(wf[t].result)
                   /\ variant[t] = "BookingWorkflow" => IsFailure(wf[t].result)

C3_Witness ==
    \E t \in live : CarFailedNonRetryable(t) /\ wf[t].pc = "returned"

\* Every index of an undo in s lies after every index of book_flight.
NoUndoBeforeFlightAttempt(s) ==
    \A j, k \in 1..Len(s) : (IsUndo(s[j]) /\ s[k] = "book_flight") => k < j

\* C4: when book_car and book_hotel succeed and every attempt of book_flight
\* fails with a retryable failure, book_flight is attempted exactly
\* book_input.attempts times and no compensation is invoked before the last
\* of those attempts has failed; while attempts remain, none is invoked.
C4_FlightAttemptsExhausted ==
    \A t \in live :
        /\ Count(wf[t].calls, "book_flight") <= book_input[t].attempts
        /\ FlightFailed(t, {"Error", "Timeout"}) =>
               /\ Count(wf[t].calls, "book_flight") = book_input[t].attempts
               /\ Count(wf[t].calls, RetryDelay) >= book_input[t].attempts - 1
               /\ NoUndoBeforeFlightAttempt(wf[t].calls)
        /\ (wf[t].step = NumSteps /\ wf[t].pc \in {"forward", "backoff"}) =>
               UndoCalls(t) = <<>>

C4_Witness ==
    \E t \in live :
        /\ FlightFailed(t, {"Error", "Timeout"})
        /\ book_input[t].attempts >= 2
        /\ Count(wf[t].calls, "book_flight") = book_input[t].attempts
        /\ wf[t].pc = "returned"

\* book_car and book_hotel returned and book_flight returned on its third attempt.
FlightOkOnThird(t) ==
    /\ book_input[t].attempts = 3
    /\ CompletedSteps(t) = <<"book_car", "book_hotel", "book_flight">>
    /\ wf[t].completed[3] = <<"book_flight", 3>>

\* C5: with attempts = 3, when book_flight fails retryably on its first two
\* attempts and succeeds on the third, run returns a success result after
\* exactly 3 invocations of book_flight with exactly 2 retry delays between
\* them, and no compensation is invoked.
C5_FlightThirdAttemptSucceeds ==
    \A t \in live :
        FlightOkOnThird(t) =>
            /\ wf[t].pc = "returned"
            /\ IsSuccess(wf[t].result)
            /\ wf[t].result.value = AllConfirmations(book_input[t])
            /\ From(wf[t].calls, "book_flight") =
                   <<"book_flight", RetryDelay, "book_flight", RetryDelay, "book_flight">>
            /\ UndoCalls(t) = <<>>

C5_Witness ==
    \E t \in live : FlightOkOnThird(t) /\ IsSuccess(wf[t].result)

\* C6 as stated: a run that has terminated has produced a result value
\* (Success, Cancelled or Failure); no exception leaves run.
C6_NeverRaises ==
    \A t \in live :
        Terminated(t) =>
            /\ wf[t].pc = "returned"
            /\ \/ IsSuccess(wf[t].result)
               \/ IsCancelled(wf[t].result)
               \/ IsFailure(wf[t].result)

\* The steps whose compensation is on the stack.
Registered(t) ==
    {i \in 1..NumSteps :
        \E k \in 1..Len(wf[t].compensations) : wf[t].compensations[k] = Compensation(i)}

\* C7 as stated: the Compensation Stack holds an entry for a step only if
\* that step's forward action has already succeeded.
C7_Original ==
    \A t \in live :
        \A i \in Registered(t) :
            \E k \in 1..Len(wf[t].completed) : wf[t].completed[k][1] = Forward(i)

\* C7 amended: the Compensation Stack holds an entry for a step only if that
\* step's forward action has already been invoked (the entry is pushed
\* right before the first invocation, so the step may be in flight or may
\* have failed); it holds one entry per invoked step, in the order of the
\* steps, and none for a step not yet invoked.
C7_StackHoldsInvokedSteps ==
    \A t \in live :
        /\ \A i \in Registered(t) : Count(wf[t].calls, Forward(i)) >= 1
        /\ \A i \in 1..NumSteps :
               Count(wf[t].calls, Forward(i)) >= 1 => i \in Registered(t)
        /\ wf[t].compensations = [k \in 1..Len(wf[t].compensations) |-> Compensation(k)]

C7_Witness ==
    \E t \in live :
        /\ wf[t].pc = "forward"
        /\ wf[t].step = 2
        /\ wf[t].compensations = <<"undo_book_car", "undo_book_hotel">>
        /\ CompletedSteps(t) = <<"book_car">>

\* The undo of a forward activity.
UndoOf(name) ==
    CASE name = "book_car" -> "undo_book_car"
      [] name = "book_hotel" -> "undo_book_hotel"
      [] OTHER -> "undo_book_flight"

\* The distinct forward activities invoked so far, in order of first invocation.
InvokedSteps(t) ==
    LET n == Cardinality({i \in 1..NumSteps : Count(wf[t].calls, Forward(i)) >= 1})
    IN  [k \in 1..n |-> Forward(k)]

\* No forward invocation and no retry wait follows an undo in s.
NoForwardAfterUndo(s) ==
    \A j, k \in 1..Len(s) : (IsUndo(s[j]) /\ j < k) => IsUndo(s[k])

\* C8 as stated: the compensation invocations are the reverse of the forward
\* steps that completed successfully, and no forward action is invoked after
\* the first compensation.
C8_Original ==
    \A t \in live :
        LET owed == Reverse([k \in 1..Len(wf[t].completed) |-> UndoOf(wf[t].completed[k][1])])
        IN  /\ IsPrefix(UndoCalls(t), owed)
            /\ wf[t].pc = "returned" /\ ~IsSuccess(wf[t].result) => UndoCalls(t) = owed
            /\ NoForwardAfterUndo(wf[t].calls)

\* C8 amended: the compensation invocations are, in order, the reverse of
\* the forward steps that were invoked (the step that failed included), the
\* loop stopping at a compensation that fails; when run returns after a
\* rollback the sequence is complete; and once the first compensation has
\* been invoked no forward action is invoked again.
C8_RollbackReversesInvokedSteps ==
    \A t \in live :
        LET owed == Reverse([k \in 1..Len(InvokedSteps(t)) |-> UndoOf(InvokedSteps(t)[k])])
        IN  /\ IsPrefix(UndoCalls(t), owed)
            /\ wf[t].pc = "rollback" => UndoCalls(t) # <<>>
            /\ wf[t].pc = "returned" /\ ~IsSuccess(wf[t].result) => UndoCalls(t) = owed
            /\ NoForwardAfterUndo(wf[t].calls)

C8_Witness ==
    \E t \in live :
        /\ wf[t].pc = "returned"
        /\ CompletedSteps(t) = <<"book_car">>
        /\ UndoCalls(t) = <<"undo_book_hotel", "undo_book_car">>

\* The states one step of transaction t's own run can lead to from L,
\* computed from L, its variant and its input alone.
OwnSuccessors(L, v, inp) ==
    LET policy == RetryPolicy(L.step, inp)
    IN  CASE L.pc = "submitted" -> {StartRun(L)}
          [] L.pc = "forward" ->
                {ForwardOk(L, v, inp)}
                \cup {ForwardRetry(L, kind) :
                         kind \in {k \in FailureKinds : WillRetry(policy, k, L.attempt)}}
                \cup {ForwardFail(L, v, kind) :
                         kind \in {k \in FailureKinds : ~WillRetry(policy, k, L.attempt)}}
          [] L.pc = "backoff" -> {NextAttempt(L)}
          [] L.pc = "rollback" ->
                {CompensationOk(L, v)}
                \cup {CompensationFail(L, kind) : kind \in FailureKinds}
          [] OTHER -> {}

\* C9: with two transactions running side by side, every step is a step of
\* one transaction: it leads that transaction to a state determined by its
\* own state, variant and input and the outcome of its own activity, and it
\* leaves the other transaction's stack, output, calls and result as they were.
C9_NonInterference ==
    [][\E t \in live :
          /\ wf'[t] \in OwnSuccessors(wf[t], variant[t], book_input[t])
          /\ \A u \in Txs \ {t} : wf'[u] = wf[u]]_vars

C9_Witness ==
    \E t, u \in live :
        /\ t # u
        /\ book_input[t].attempts = book_input[u].attempts
        /\ IsSuccess(wf[t].result)
        /\ IsCancelled(wf[u].result)
        /\ wf[t].compensations # wf[u].compensations

\* C10 as stated: when run returns Success the Compensation Stack is empty.
C10_Original ==
    \A t \in live :
        (wf[t].pc = "returned" /\ IsSuccess(wf[t].result)) =>
            wf[t].compensations = <<>>

\* C10 amended: when run returns Success no compensation has been invoked
\* and the Compensation Stack still holds the three entries undo_book_car,
\* undo_book_hotel, undo_book_flight: the success path never drains it.
C10_SuccessLeavesStackUndrained ==
    \A t \in live :
        (wf[t].pc = "returned" /\ IsSuccess(wf[t].result)) =>
            /\ wf[t].compensations =
                   <<"undo_book_car", "undo_book_hotel", "undo_book_flight">>
            /\ wf[t].pending = <<>>
            /\ UndoCalls(t) = <<>>

C10_Witness ==
    \E t \in live :
        /\ wf[t].pc = "returned"
        /\ IsSuccess(wf[t].result)
        /\ Len(wf[t].compensations) = 3

\* The undo actions of steps k, k-1, ..., 1.
UndoDownFrom(k) == [j \in 1..k |-> Compensation(k + 1 - j)]

\* C11 as stated: the compensation of a step is on the stack from the
\* first invocation of its forward action on, and when forward step k has
\* failed terminally the rollback invokes exactly the undo actions of steps
\* k, k-1, ..., 1 in that order, beginning with the undo of step k.
C11_PushBeforeFullRollback ==
    \A t \in live :
        /\ \A i \in 1..NumSteps :
               Count(wf[t].calls, Forward(i)) >= 1 => i \in Registered(t)
        /\ wf[t].ex # <<>> =>
               /\ UndoCalls(t) # <<>>
               /\ UndoCalls(t)[1] = Compensation(wf[t].step)
               /\ IsPrefix(UndoCalls(t), UndoDownFrom(wf[t].step))
               /\ Terminated(t) => UndoCalls(t) = UndoDownFrom(wf[t].step)

\* C12 as stated: in BookWorkflow a compensation call that fails during
\* rollback is absorbed: the run that entered rollback ends by returning
\* "Voyage cancelled" with every entry of the stack invoked in LIFO order.
C12_SimplerVariantAbsorbs ==
    \A t \in live :
        (variant[t] = "BookWorkflow" /\ wf[t].ex # <<>> /\ Terminated(t)) =>
            /\ wf[t].pc = "returned"
            /\ IsCancelled(wf[t].result)
            /\ UndoCalls(t) = Reverse(wf[t].compensations)

\* C13 as stated: in BookingWorkflow a run whose rollback met a failing
\* compensation call still ends with a Failure result value.
C13_StricterVariantReports ==
    \A t \in live :
        (variant[t] = "BookingWorkflow" /\ wf[t].ex # <<>> /\ Terminated(t)) =>
            IsFailure(wf[t].result)

\* No forward invocation and no retry wait follows position k of s.
OnlyUndoAfter(s, k) == \A j \in (k + 1)..Len(s) : IsUndo(s[j])

\* Position of the last forward invocation in s (0 if there is none).
LastForward(s) ==
    IF \E k \in 1..Len(s) : IsForward(s[k])
    THEN CHOOSE k \in 1..Len(s) :
             IsForward(s[k]) /\ \A j \in (k + 1)..Len(s) : ~IsForward(s[j])
    ELSE 0

\* C14: a forward attempt that fails with ValueError is never retried, for
\* any step and whatever budget remains: the executor never backs off from
\* a ValueError, and once a step has failed with ValueError the failed
\* attempt is the last forward invocation of the run, made while attempts
\* may still remain, and only compensations follow it.
C14_NonRetryableAbortsAtOnce ==
    \A t \in live :
        /\ wf[t].retrying # "ValueError"
        /\ wf[t].pc = "forward" =>
               ~WillRetry(RetryPolicy(wf[t].step, book_input[t]),
                          "ValueError", wf[t].attempt)
        /\ (wf[t].ex # <<>> /\ wf[t].ex[2] = "ValueError") =>
               /\ wf[t].pc \in {"rollback", "returned", "raised"}
               /\ wf[t].calls[LastForward(wf[t].calls)] = wf[t].ex[1]
               /\ Count(wf[t].calls, wf[t].ex[1]) = wf[t].attempt
               /\ OnlyUndoAfter(wf[t].calls, LastForward(wf[t].calls))

C14_Witness ==
    \E t \in live :
        /\ wf[t].ex = ActivityError("book_flight", "ValueError")
        /\ book_input[t].attempts >= 2
        /\ wf[t].attempt = 1
        /\ wf[t].pc = "returned"

\* C15: book_car and book_hotel have no attempt limit: whatever the number
\* of attempts already failed, a retryable failure or a timeout of one of
\* them is retried, and a rollback that starts from one of these two steps
\* starts from a ValueError.
C15_CarHotelUnbounded ==
    \A t \in live :
        /\ (wf[t].pc = "forward" /\ wf[t].step \in {1, 2}) =>
               \A kind \in {"Error", "Timeout"} :
                   WillRetry(RetryPolicy(wf[t].step, book_input[t]), kind, wf[t].attempt)
        /\ (wf[t].ex # <<>> /\ wf[t].ex[1] \in {"book_car", "book_hotel"}) =>
               wf[t].ex[2] = "ValueError"
        /\ (wf[t].step \in {1, 2} /\ wf[t].ex = <<>>) => UndoCalls(t) = <<>>

C15_Witness ==
    \E t \in live :
        /\ book_input[t].attempts = 1
        /\ wf[t].step = 2
        /\ wf[t].pc = "forward"
        /\ wf[t].attempt = MaxUnboundedAttempts
        /\ Count(wf[t].calls, "book_car") = MaxUnboundedAttempts
        /\ UndoCalls(t) = <<>>

\* C16: the stack is drained at most once and only on the failure path: a
\* run that returned Success invoked no compensation, compensations are
\* invoked only after a forward step has failed terminally, never more of
\* them than the stack holds, and once the rollback has been entered the
\* run stays in it (same triggering error, no forward step, no second loop)
\* until it ends.
C16_DrainedOnceOnFailurePath ==
    /\ [](\A t \in live :
             /\ IsSuccess(wf[t].result) => (UndoCalls(t) = <<>> /\ wf[t].ex = <<>>)
             /\ UndoCalls(t) # <<>> => wf[t].ex # <<>>
             /\ Len(UndoCalls(t)) <= Len(wf[t].compensations)
             /\ Len(UndoCalls(t)) + Len(wf[t].pending) <= Len(wf[t].compensations))
    /\ [][\A t \in live :
             wf[t].ex # <<>> =>
                 /\ wf'[t].ex = wf[t].ex
                 /\ wf'[t].compensations = wf[t].compensations
                 /\ wf'[t].pc \in {"rollback", "returned", "raised"}
                 /\ Len(wf'[t].pending) <= Len(wf[t].pending)]_vars

C16_Witness ==
    \E t \in live :
        /\ wf[t].pc = "returned"
        /\ wf[t].ex # <<>>
        /\ Len(wf[t].compensations) = 3
        /\ Len(UndoCalls(t)) = 3

\* The forward invocations of s, in order.
ForwardCalls(s) == SelectSeq(s, IsForward)

StepOf(name) ==
    CASE name = "book_car" -> 1
      [] name = "book_hotel" -> 2
      [] OTHER -> 3

\* C17: the forward steps run one after the other in the order car, hotel,
\* flight: book_hotel is invoked only after book_car has returned,
\* book_flight only after book_hotel has returned, the forward invocations
\* never go back to an earlier step, and a step of the run starts at most
\* one activity, so that no second call is started while one is in flight.
C17_StrictlySequential ==
    /\ [](\A t \in live :
             /\ \A i \in 2..NumSteps :
                    Count(wf[t].calls, Forward(i)) >= 1 =>
                        \E k \in 1..Len(wf[t].completed) :
                            wf[t].completed[k][1] = Forward(i - 1)
             /\ \A j, k \in 1..Len(ForwardCalls(wf[t].calls)) :
                    j < k => StepOf(ForwardCalls(wf[t].calls)[j])
                                 <= StepOf(ForwardCalls(wf[t].calls)[k])
             /\ CompletedSteps(t) = [k \in 1..Len(wf[t].completed) |-> Forward(k)]
             /\ wf[t].pc \in {"forward", "rollback"} =>
                    wf[t].calls[Len(wf[t].calls)] # RetryDelay)
    /\ [][\A t \in live :
             /\ Len(wf'[t].calls) <= Len(wf[t].calls) + 1
             /\ IsPrefix(wf[t].calls, wf'[t].calls)]_vars

C17_Witness ==
    \E t \in live :
        /\ wf[t].pc = "forward"
        /\ wf[t].step = 3
        /\ wf[t].attempt = 2
        /\ CompletedSteps(t) = <<"book_car", "book_hotel">>

\* C18: the rollback loop invokes each compensation of the stack at most
\* once; a compensation call that failed is the last call of the run:
\* it is not invoked again and nothing is invoked after it.
C18_CompensationsNotRetried ==
    /\ [](\A t \in live :
             /\ \A i \in 1..NumSteps : Count(wf[t].calls, Compensation(i)) <= 1
             /\ \A j \in 1..Len(wf[t].calls) :
                    IsUndo(wf[t].calls[j]) =>
                        (j = Len(wf[t].calls) \/ wf[t].calls[j + 1] # RetryDelay)
             /\ (wf[t].pc = "raised" /\ wf[t].ex # <<>> /\ UndoCalls(t) # <<>>) =>
                    wf[t].result.value[1] = wf[t].calls[Len(wf[t].calls)])
    /\ [][\A t \in live : wf[t].pc = "raised" => wf'[t] = wf[t]]_vars

C18_Witness ==
    \E t \in live :
        /\ wf[t].pc = "raised"
        /\ UndoCalls(t) = <<"undo_book_flight", "undo_book_hotel">>
        /\ Len(wf[t].pending) = 1

\* book_car and book_hotel returned and book_flight used up its attempts.
FlightGaveUp(t) ==
    /\ FlightFailed(t, {"Error", "Timeout"})
    /\ Count(wf[t].calls, "book_flight") = book_input[t].attempts

\* C19 as stated: under weak fairness of the executor every transaction
\* eventually ends with a result value returned by run, and a transaction
\* whose flight step has used up its attempts eventually returns the
\* rollback result (Cancelled).
C19_Termination ==
    \A t \in Txs :
        /\ (t \in live) ~> (wf[t].pc = "returned" /\ wf[t].result # NoResult)
        /\ (t \in live /\ FlightGaveUp(t)) ~>
               (wf[t].pc = "returned" /\ wf[t].result = RollbackResult(variant[t], wf[t].ex))

\* Every started run eventually ends, by a return or by an exception.
EventuallyEnds == \A t \in Txs : (t \in live) ~> Terminated(t)

\* The result of BookWorkflow and the result of BookingWorkflow say the same:
\* none yet, the same confirmation text, or "Voyage cancelled" / status failure.
ResultsCorrespond(a, b) ==
    \/ a = NoResult /\ b = NoResult
    \/ /\ a.kind = "str" /\ a.value # VoyageCancelled
       /\ b.kind = "dict" /\ b.status = "success" /\ b.value = a.value
    \/ IsCancelled(a) /\ IsFailure(b)

\* Two run states that differ at most in the shape of the result.
Corresponds(A, B) ==
    /\ [A EXCEPT !.result = NoResult] = [B EXCEPT !.result = NoResult]
    /\ ResultsCorrespond(A.result, B.result)

\* C20: on activity errors and succeeding compensations the two variants
\* are equivalent: a run that has not ended is in a state both variants
\* share, and from it the same outcome (a forward step returning, a forward
\* step failing terminally, a compensation returning) leads both to the same
\* invocations, stack and position, BookWorkflow returning the confirmation
\* text exactly when BookingWorkflow returns status success and "Voyage
\* cancelled" exactly when BookingWorkflow returns status failure.
C20_VariantsEquivalent ==
    \A t \in live :
        LET L == wf[t]
            inp == book_input[t]
        IN  /\ ~Terminated(t) => L.result = NoResult
            /\ L.pc = "forward" =>
                   /\ Corresponds(ForwardOk(L, "BookWorkflow", inp),
                                  ForwardOk(L, "BookingWorkflow", inp))
                   /\ \A kind \in FailureKinds :
                          ~WillRetry(RetryPolicy(L.step, inp), kind, L.attempt) =>
                              Corresponds(ForwardFail(L, "BookWorkflow", kind),
                                          ForwardFail(L, "BookingWorkflow", kind))
            /\ L.pc = "rollback" =>
                   Corresponds(CompensationOk(L, "BookWorkflow"),
                               CompensationOk(L, "BookingWorkflow"))
            /\ L.pc = "returned" =>
                   LET bw == IF L.ex = <<>> THEN SuccessResult("BookWorkflow", L.output)
                             ELSE RollbackResult("BookWorkflow", L.ex)
                       bk == IF L.ex = <<>> THEN SuccessResult("BookingWorkflow", L.output)
                             ELSE RollbackResult("BookingWorkflow", L.ex)
                   IN  /\ L.result = IF variant[t] = "BookWorkflow" THEN bw ELSE bk
                       /\ ResultsCorrespond(bw, bk)

C20_Witness ==
    \E t \in live :
        /\ variant[t] = "BookingWorkflow"
        /\ wf[t].pc = "returned"
        /\ IsFailure(wf[t].result)
        /\ Len(UndoCalls(t)) = 2

====
